---- MODULE Spec2Model ----
(***************************************************************************)
(* A model of the navigation and key-dispatch core of the hex editor bed:  *)
(* the editor window of core/window.go (cursor, offset, jump stack) and    *)
(* the key manager of core/key.go (pending keys, registered key events).   *)
(***************************************************************************)
EXTENDS Integers, Sequences, FiniteSets, TLC

VARIABLES
    \* Window (core/window.go)
    width, height, length, data, cursor, offset, stack, mode,
    \* the last window operation applied, and the (cursor, offset) pairs held
    \* before the jumpTo operations of the current run of jumpTo and jumpBack
    \* operations that no jumpBack has answered yet (a jumpBack that answers a
    \* jumpTo that pushed nothing ends the run)
    op, nest,
    \* the number of operations applied to the window while its height is 0,
    \* the height NewWindow leaves
    unset,
    \* the key managers (core/key.go): kms maps a mode to its manager, and
    \* kmKeys and kmCount are the fields keys and count of each manager; the
    \* field keyEvents of a manager is held in two parts: kmBuilt names the
    \* mode whose key events defaultKeyManagers registered with it ("" when
    \* it registered none), kmRegistered are the key events registered since
    kms, kmKeys, kmBuilt, kmRegistered, kmCount,
    \* the last key manager operation (kop) and the manager it was applied
    \* to (kon); for a Press, km.keys right after the key was appended
    \* (pressed) and the Event returned (ev)
    kop, kon, pressed, ev

wvars == <<width, height, length, data, cursor, offset, stack, mode, op, nest, unset>>

kvars == <<kms, kmKeys, kmBuilt, kmRegistered, kmCount, kop, kon, pressed, ev>>

vars == <<wvars, kvars>>

(***************************************************************************)
(* Bounds of the model.                                                    *)
(***************************************************************************)
\* widths 1..MaxWidth of the window, and heights 1..MaxHeight once the owner
\* of the window has set the height
MaxWidth == 3
MaxHeight == 3
\* lengths 0..MaxShortLen of the files shorter than the jumpTo scan window
MaxShortLen == 5
\* no more than MaxUnset operations are applied to a window while its height
\* is 0
MaxUnset == 4
\* counts 0..MaxCount handed to the counted operations
MaxCount == 2
\* jumpTo is not taken once the jump stack holds MaxStack positions
MaxStack == 2
\* pageUp and pageDown are not taken when they would move the offset out of
\* the rows of the data and further than MaxRows rows away from address 0
\* (heights 0 and 1 move it without end)
MaxRows == 5
\* Press is not taken once MaxPending keys are pending
MaxPending == 3
\* Register is not taken once MaxRegister key events were registered by hand
MaxRegister == 3
\* the window of the page scenario: PageLength bytes shown PageWidth to the
\* row on PageHeight rows
PageLength == 400
PageWidth == 16
PageHeight == 10
\* the files that jumpTo is tried on beyond the long file: BlankLength bytes
\* with digits and a blank in them, RunLength bytes that end in a run of
\* digits which starts at address RunFrom
BlankLength == 60
RunLength == 101
RunFrom == 50
\* ParseInt stands for every value from MaxParsed on by MaxParsed
MaxParsed == 999999999

(***************************************************************************)
(* Integer helpers: Go's int64 division truncates toward zero and the sign *)
(* of % follows the dividend; util.MinInt64 and util.MaxInt64.             *)
(***************************************************************************)
Quot(a, b) == IF a >= 0 THEN a \div b ELSE -((-a) \div b)

Rem(a, b) == a - b * Quot(a, b)

MinInt64(x, y) == IF x < y THEN x ELSE y

MaxInt64(x, y) == IF x > y THEN x ELSE y

Abs(x) == IF x < 0 THEN -x ELSE x

(***************************************************************************)
(* The files.  A file is given by its length, the bytes at the addresses   *)
(* of interest and the byte that fills every other address.                *)
(***************************************************************************)
File(n, fill, bytes) == [length |-> n, fill |-> fill, bytes |-> bytes]

\* the byte of file f at address a < f.length
ByteAt(f, a) == IF a \in DOMAIN f.bytes THEN f.bytes[a] ELSE f.fill

\* n bytes 'A' (65), which is neither white space nor a digit
ShortFile(n) == File(n, 65, <<>>)

\* 54 bytes: "52" ('5' is 53, '2' is 50) at addresses 51 and 52, 'A' elsewhere
LongFile == File(54, 65, 51 :> 53 @@ 52 :> 50)

\* the width the long file is shown with
LongWidth == 16

ShortFiles == {ShortFile(n) : n \in 0..MaxShortLen}

Files == ShortFiles \cup {LongFile}

\* the file of the page scenario: PageLength bytes 'A'
PageFile == File(PageLength, 65, <<>>)

\* MaxShortLen bytes 'A' with the digit '3' (51) at address 1
DigitFile == File(MaxShortLen, 65, 1 :> 51)

\* BlankLength bytes 'A' with "52" at addresses 51 and 52 ('5' is 53, '2' is
\* 50), " 0" at addresses 54 and 55 (' ' is 32, '0' is 48) and "99" ('9' is
\* 57) at addresses 57 and 58
BlankFile ==
    File(BlankLength, 65,
         51 :> 53 @@ 52 :> 50 @@ 54 :> 32 @@ 55 :> 48 @@ 57 :> 57 @@ 58 :> 57)

\* RunLength bytes: 'A' up to address RunFrom - 1, the digit '1' (49) from
\* address RunFrom to the end
RunFile == File(RunLength, 65, [a \in RunFrom..(RunLength - 1) |-> 49])

JumpFiles == {DigitFile, BlankFile, RunFile}

\* a short file is shown with every width and, once its owner has set the
\* height, every height of the bounds, the file of the page scenario with the
\* width and height of the scenario, the other files with width LongWidth and
\* height MaxHeight
WidthsOf(f) ==
    IF f = PageFile THEN {PageWidth}
    ELSE IF f.length > MaxShortLen THEN {LongWidth}
    ELSE 1..MaxWidth

HeightsOf(f) ==
    IF f = PageFile THEN {PageHeight}
    ELSE IF f.length > MaxShortLen THEN {MaxHeight}
    ELSE 1..MaxHeight

Counts == 0..MaxCount

(***************************************************************************)
(* Window operations, each as the (cursor, offset) it leaves.              *)
(***************************************************************************)
Pos(c, o) == [cursor |-> c, offset |-> o]

\* the last valid address, util.MaxInt64(w.length, 1) - 1
LastAddr == MaxInt64(length, 1) - 1

\* offset after the cursor moved to c: snap up when c is above the window
SnapUp(c) == IF c < offset THEN Quot(c, width) * width ELSE offset

\* offset after the cursor moved to c: snap down when c is below the window
SnapDown(c) ==
    IF c >= offset + height * width
    THEN Quot(c - height * width + width, width) * width
    ELSE offset

cursorUp(count) ==
    LET c == cursor - MinInt64(MaxInt64(count, 1), Quot(cursor, width)) * width
    IN  Pos(c, SnapUp(c))

cursorDown(count) ==
    LET c == cursor + MinInt64(
                 MinInt64(MaxInt64(count, 1),
                          Quot(LastAddr, width) - Quot(cursor, width)) * width,
                 LastAddr - cursor)
    IN  Pos(c, SnapDown(c))

cursorLeft(count) ==
    Pos(cursor - MinInt64(MaxInt64(count, 1), Rem(cursor, width)), offset)

cursorRight(count) ==
    Pos(cursor + MinInt64(MinInt64(MaxInt64(count, 1), width - 1 - Rem(cursor, width)),
                          LastAddr - cursor),
        offset)

cursorPrev(count) ==
    LET c == cursor - MinInt64(MaxInt64(count, 1), cursor)
    IN  Pos(c, SnapUp(c))

\* cursorNext without the clamp to the last address
cursorNextUnclamped(count) ==
    LET c == cursor + MaxInt64(count, 1)
    IN  Pos(c, SnapDown(c))

cursorNext(count) ==
    LET c == cursor + MinInt64(MaxInt64(count, 1), LastAddr - cursor)
    IN  Pos(c, SnapDown(c))

cursorHead == Pos(cursor - Rem(cursor, width), offset)

cursorEnd(count) ==
    LET c == MinInt64((Quot(cursor, width) + MaxInt64(count, 1)) * width - 1, LastAddr)
    IN  Pos(c, SnapDown(c))

scrollUp(count) ==
    LET o == offset - MinInt64(MaxInt64(count, 1), Quot(offset, width)) * width
    IN  Pos(IF cursor >= o + height * width
            THEN cursor - (Quot(cursor - o - height * width, width) + 1) * width
            ELSE cursor,
            o)

scrollDown(count) ==
    LET h == Quot(MaxInt64(length, 1) + width - 1, width) - height
        o == offset + MinInt64(MaxInt64(count, 1), h - Quot(offset, width)) * width
    IN  Pos(IF cursor < o
            THEN cursor + MinInt64(Quot(o - cursor + width - 1, width) * width,
                                   LastAddr - cursor)
            ELSE cursor,
            o)

\* the offset that shows the final full page
EndOffset == MaxInt64((Quot(length + width - 1, width) - height) * width, 0)

\* the first byte of the last row
LastRowHead == (Quot(MaxInt64(length, 1) + width - 1, width) - 1) * width

\* the cursor rule shared by pageUp and pageUpHalf, for the new offset o
PageUpCursor(o) ==
    IF o = 0 THEN 0
    ELSE IF cursor >= o + height * width THEN o + (height - 1) * width
    ELSE cursor

\* the cursor rule shared by pageDown and pageDownHalf, for the new offset o
PageDownCursor(o) ==
    IF cursor < o THEN o
    ELSE IF o = EndOffset THEN LastRowHead
    ELSE cursor

pageUp ==
    LET o == MaxInt64(offset - (height - 2) * width, 0)
    IN  Pos(PageUpCursor(o), o)

pageDown ==
    LET o == MinInt64(offset + (height - 2) * width, EndOffset)
    IN  Pos(PageDownCursor(o), o)

pageUpHalf ==
    LET o == MaxInt64(offset - MaxInt64(Quot(height, 2), 1) * width, 0)
    IN  Pos(PageUpCursor(o), o)

pageDownHalf ==
    LET o == MinInt64(offset + MaxInt64(Quot(height, 2), 1) * width, EndOffset)
    IN  Pos(PageDownCursor(o), o)

pageTop == Pos(0, 0)

\* pageEnd that puts the cursor on the last byte instead of the head of the
\* last row
pageEndLastByte == Pos(LastAddr, EndOffset)

pageEnd == Pos(LastRowHead, EndOffset)

(***************************************************************************)
(* jumpTo and jumpBack.                                                    *)
(***************************************************************************)
\* s := 50, half the size of the window of bytes jumpTo reads
s == 50

isDigit(b) == 48 <= b /\ b <= 57

isWhite(b) == b = 0 \/ b = 9 \/ b = 10 \/ b = 13 \/ b = 32

\* the len bytes read at address pos: bytes[k + 1] is Go's bytes[k], and the
\* bytes past the end of the file stay zero
readBytes(pos, len) ==
    [k \in 1..len |-> IF pos + k - 1 < data.length THEN ByteAt(data, pos + k - 1) ELSE 0]

\* for i = s; i < 2*s && isWhite(bytes[i]); i++ {}
RECURSIVE SkipWhite(_, _)
SkipWhite(bytes, i) ==
    IF i < 2 * s /\ isWhite(bytes[i + 1]) THEN SkipWhite(bytes, i + 1) ELSE i

\* for ; 0 < i && isDigit(bytes[i-1]); i-- {}
RECURSIVE RunStart(_, _)
RunStart(bytes, i) ==
    IF 0 < i /\ isDigit(bytes[i]) THEN RunStart(bytes, i - 1) ELSE i

\* for j = i; j < 2*s && isDigit(bytes[j]); j++ {}
RECURSIVE RunEnd(_, _)
RunEnd(bytes, j) ==
    IF j < 2 * s /\ isDigit(bytes[j + 1]) THEN RunEnd(bytes, j + 1) ELSE j

\* strconv.ParseInt(str, 10, 64) of a string of decimal digits, given as the
\* sequence of the digits' values; the empty string gives 0.  ParseInt gives
\* the largest int64 for a value out of range; here MaxParsed, which is above
\* every length of the model, stands for every value from MaxParsed on
RECURSIVE ParseInt(_)
ParseInt(digits) ==
    IF digits = <<>> THEN 0
    ELSE LET front == ParseInt(SubSeq(digits, 1, Len(digits) - 1))
             d == digits[Len(digits)]
         IN  IF front > (MaxParsed - d) \div 10 THEN MaxParsed ELSE 10 * front + d

Same == [cursor |-> cursor, offset |-> offset, stack |-> stack]

\* jumpTo that saves the position before it checks the value parsed
jumpToSavesFirst(err) ==
    LET bytes == readBytes(MaxInt64(cursor - s, 0), 2 * s)
        i0 == SkipWhite(bytes, s)
        saved == [cursor |-> cursor, offset |-> offset,
                  stack |-> Append(stack, Pos(cursor, offset))]
    IN  IF err THEN Same
        ELSE IF i0 = 2 * s \/ ~isDigit(bytes[i0 + 1]) THEN Same
        ELSE LET i == RunStart(bytes, i0)
                 j == RunEnd(bytes, i)
             IN  IF j = 2 * s THEN Same
                 ELSE LET v == ParseInt([k \in 1..(j - i) |-> bytes[i + k] - 48])
                      IN  IF v <= 0 \/ length <= v THEN saved
                          ELSE [cursor |-> v,
                                offset |-> MaxInt64(v - Rem(v, width)
                                              - MaxInt64(Quot(height, 3), 0) * width, 0),
                                stack |-> Append(stack, Pos(cursor, offset))]

\* err: the read of the window of bytes failed
jumpTo(err) ==
    LET bytes == readBytes(MaxInt64(cursor - s, 0), 2 * s)
        i0 == SkipWhite(bytes, s)
    IN  IF err THEN Same
        ELSE IF i0 = 2 * s \/ ~isDigit(bytes[i0 + 1]) THEN Same
        ELSE LET i == RunStart(bytes, i0)
                 j == RunEnd(bytes, i)
             IN  IF j = 2 * s THEN Same
                 ELSE LET v == ParseInt([k \in 1..(j - i) |-> bytes[i + k] - 48])
                      IN  IF v <= 0 \/ length <= v THEN Same
                          ELSE [cursor |-> v,
                                offset |-> MaxInt64(v - Rem(v, width)
                                              - MaxInt64(Quot(height, 3), 0) * width, 0),
                                stack |-> Append(stack, Pos(cursor, offset))]

\* jumpBack restoring the oldest saved position instead of the newest
jumpBackOldest ==
    IF Len(stack) = 0 THEN Same
    ELSE [cursor |-> stack[1].cursor,
          offset |-> stack[1].offset,
          stack |-> SubSeq(stack, 1, Len(stack) - 1)]

jumpBack ==
    IF Len(stack) = 0 THEN Same
    ELSE [cursor |-> stack[Len(stack)].cursor,
          offset |-> stack[Len(stack)].offset,
          stack |-> SubSeq(stack, 1, Len(stack) - 1)]

(***************************************************************************)
(* The key manager (core/key.go).  A key is a string, a key event a record *)
(* of its keys and its event type.                                         *)
(***************************************************************************)
keysEq == 0
keysPending == 1
keysNeq == 2

KE(event, ks) == [keys |-> ks, event |-> event]

\* keyEvent.cmp: ke against the keys ks
cmp(ke, ks) ==
    IF Len(ke.keys) < Len(ks) THEN keysNeq
    ELSE IF \E i \in 1..Len(ks) : ke.keys[i] # ks[i] THEN keysNeq
    ELSE IF Len(ke.keys) > Len(ks) THEN keysPending
    ELSE keysEq

\* the value of a key of one decimal digit
DigitValue(k) ==
    CASE k = "0" -> 0 [] k = "1" -> 1 [] k = "2" -> 2 [] k = "3" -> 3 [] k = "4" -> 4
      [] k = "5" -> 5 [] k = "6" -> 6 [] k = "7" -> 7 [] k = "8" -> 8 [] k = "9" -> 9

\* the count key test without its clause for '0'
IsCountKeyNoZero(k, j) ==
    k \in {"1", "2", "3", "4", "5", "6", "7", "8", "9"}

\* len(k) == 1 && ('1' <= k[0] && k[0] <= '9' || k[0] == '0' && j > 0), for
\* the key k at index j (from 0) of the keys
IsCountKey(k, j) ==
    \/ k \in {"1", "2", "3", "4", "5", "6", "7", "8", "9"}
    \/ k = "0" /\ j > 0

\* len(numStr): the number of leading keys of ks that make up the count,
\* counted from index j (from 0)
RECURSIVE NumLen(_, _)
NumLen(ks, j) ==
    IF j < Len(ks) /\ IsCountKey(ks[j + 1], j) THEN NumLen(ks, j + 1) ELSE j

\* the keys that lead ks and make up the count, when the manager counts
NumStr(counting, ks) == IF counting THEN SubSeq(ks, 1, NumLen(ks, 0)) ELSE <<>>

\* keys[len(numStr):]
AfterNum(counting, ks) == SubSeq(ks, Len(NumStr(counting, ks)) + 1, Len(ks))

\* count, _ = strconv.ParseInt(numStr, 10, 64)
CountOf(counting, ks) ==
    LET numStr == NumStr(counting, ks)
    IN  ParseInt([i \in 1..Len(numStr) |-> DigitValue(numStr[i])])

EventNop == "EventNop"

Event(type, n) == [Type |-> type, Count |-> n]

\* the key events searched for a pending one before an equal one: the index,
\* from b on, of the first key event that cmp reports pending for ks, else of
\* the first that cmp reports equal, or 0
FirstMatchPending(kes, ks, b) ==
    LET P == {c \in b..Len(kes) : cmp(kes[c], ks) = keysPending}
        E == {c \in b..Len(kes) : cmp(kes[c], ks) = keysEq}
    IN  IF P # {} THEN CHOOSE c \in P : \A d \in P : c <= d
        ELSE IF E # {} THEN CHOOSE c \in E : \A d \in E : c <= d
        ELSE 0

\* the key events searched for an equal one before a pending one: the index,
\* from b on, of the first key event that cmp reports equal for ks, else of
\* the first that cmp reports pending, or 0
FirstMatchEqual(kes, ks, b) ==
    LET P == {c \in b..Len(kes) : cmp(kes[c], ks) = keysPending}
        E == {c \in b..Len(kes) : cmp(kes[c], ks) = keysEq}
    IN  IF E # {} THEN CHOOSE c \in E : \A d \in E : c <= d
        ELSE IF P # {} THEN CHOOSE c \in P : \A d \in P : c <= d
        ELSE 0

\* for _, ke := range km.keyEvents: the index, from b on, of the first key
\* event that cmp reports pending or equal for ks, or 0
RECURSIVE FirstMatch(_, _, _)
FirstMatch(kes, ks, b) ==
    IF b > Len(kes) THEN 0
    ELSE IF cmp(kes[b], ks) # keysNeq THEN b
    ELSE FirstMatch(kes, ks, b + 1)

\* for i := 0; i < len(km.keys); i++: the keys left pending and the Event
\* returned, trying km.keys[i:] for i (from 0) onwards
RECURSIVE PressFrom(_, _, _, _)
PressFrom(kes, counting, all, i) ==
    IF i >= Len(all) THEN [keys |-> <<>>, ev |-> Event(EventNop, 0)]
    ELSE LET window == SubSeq(all, i + 1, Len(all))
             ks == AfterNum(counting, window)
             b == FirstMatch(kes, ks, 1)
         IN  IF b = 0 THEN PressFrom(kes, counting, all, i + 1)
             ELSE IF cmp(kes[b], ks) = keysPending
             THEN [keys |-> all, ev |-> Event(EventNop, 0)]
             ELSE [keys |-> <<>>, ev |-> Event(kes[b].event, CountOf(counting, window))]

\* Press that keeps km.keys when a key event is found equal
pressKeepsKeys(kes, counting, pending, k) ==
    LET r == PressFrom(kes, counting, Append(pending, k), 0)
    IN  [keys |-> IF r.ev.Type # EventNop THEN Append(pending, k) ELSE r.keys,
         ev |-> r.ev]

\* Press that tries the whole of km.keys only, and none of km.keys[i:], i > 0
pressNoRetry(kes, counting, pending, k) ==
    LET all == Append(pending, k)
    IN  IF FirstMatch(kes, AfterNum(counting, all), 1) # 0
        THEN PressFrom(kes, counting, all, 0)
        ELSE [keys |-> <<>>, ev |-> Event(EventNop, 0)]

\* Press that keeps km.keys when no key event is pending or equal
pressNoClear(kes, counting, pending, k) ==
    LET all == Append(pending, k)
        r == PressFrom(kes, counting, all, 0)
    IN  IF \E i \in 0..(Len(all) - 1) :
               FirstMatch(kes, AfterNum(counting, SubSeq(all, i + 1, Len(all))), 1) # 0
        THEN r
        ELSE [keys |-> all, ev |-> r.ev]

\* KeyManager.Press of the key k on a manager with key events kes, count
\* flag counting and pending keys pending
press(kes, counting, pending, k) == PressFrom(kes, counting, Append(pending, k), 0)

\* KeyManager.Register
register(kes, event, ks) == Append(kes, KE(event, ks))

Modes == {"ModeNormal", "ModeInsert", "ModeReplace", "ModeCmdline"}

\* the managers defaultKeyManagers builds: one for ModeNormal, one that
\* ModeInsert and ModeReplace share, one for ModeCmdline
Managers == 1..3

NormalKeyEvents == <<
    KE("EventQuit", <<"Z", "Q">>),
    KE("EventCursorUp", <<"up">>),
    KE("EventCursorDown", <<"down">>),
    KE("EventCursorLeft", <<"left">>),
    KE("EventCursorRight", <<"right">>),
    KE("EventPageUp", <<"pgup">>),
    KE("EventPageDown", <<"pgdn">>),
    KE("EventPageTop", <<"home">>),
    KE("EventPageEnd", <<"end">>),
    KE("EventCursorUp", <<"k">>),
    KE("EventCursorDown", <<"j">>),
    KE("EventCursorLeft", <<"h">>),
    KE("EventCursorRight", <<"l">>),
    KE("EventCursorPrev", <<"b">>),
    KE("EventCursorNext", <<"w">>),
    KE("EventCursorHead", <<"0">>),
    KE("EventCursorHead", <<"^">>),
    KE("EventCursorEnd", <<"$">>),
    KE("EventScrollUp", <<"c-y">>),
    KE("EventScrollDown", <<"c-e">>),
    KE("EventPageUp", <<"c-b">>),
    KE("EventPageDown", <<"c-f">>),
    KE("EventPageUpHalf", <<"c-u">>),
    KE("EventPageDownHalf", <<"c-d">>),
    KE("EventPageTop", <<"g", "g">>),
    KE("EventPageEnd", <<"G">>),
    KE("EventJumpTo", <<"c-]">>),
    KE("EventJumpBack", <<"c-t">>),
    KE("EventDeleteByte", <<"x">>),
    KE("EventDeletePrevByte", <<"X">>),
    KE("EventIncrement", <<"c-a">>),
    KE("EventIncrement", <<"+">>),
    KE("EventDecrement", <<"c-x">>),
    KE("EventDecrement", <<"-">>),
    KE("EventStartInsert", <<"i">>),
    KE("EventStartInsertHead", <<"I">>),
    KE("EventStartAppend", <<"a">>),
    KE("EventStartAppendEnd", <<"A">>),
    KE("EventStartReplaceByte", <<"r">>),
    KE("EventStartReplace", <<"R">>),
    KE("EventStartCmdline", <<":">>) >>

InsertKeyEvents == <<
    KE("EventExitInsert", <<"escape">>),
    KE("EventExitInsert", <<"c-c">>),
    KE("EventCursorUp", <<"up">>),
    KE("EventCursorDown", <<"down">>),
    KE("EventCursorLeft", <<"left">>),
    KE("EventCursorRight", <<"right">>),
    KE("EventPageUp", <<"pgup">>),
    KE("EventPageDown", <<"pgdn">>),
    KE("EventPageTop", <<"home">>),
    KE("EventPageEnd", <<"end">>),
    KE("EventBackspace", <<"backspace">>),
    KE("EventBackspace", <<"backspace2">>),
    KE("EventDelete", <<"delete">>) >>

CmdlineKeyEvents == <<
    KE("EventSpaceCmdline", <<"space">>),
    KE("EventCursorLeft", <<"left">>),
    KE("EventCursorLeft", <<"c-b">>),
    KE("EventCursorRight", <<"right">>),
    KE("EventCursorRight", <<"c-f">>),
    KE("EventCursorHead", <<"home">>),
    KE("EventCursorHead", <<"c-a">>),
    KE("EventCursorEnd", <<"end">>),
    KE("EventCursorEnd", <<"c-e">>),
    KE("EventBackspaceCmdline", <<"c-h">>),
    KE("EventBackspaceCmdline", <<"backspace">>),
    KE("EventBackspaceCmdline", <<"backspace2">>),
    KE("EventDeleteCmdline", <<"delete">>),
    KE("EventDeleteWordCmdline", <<"c-w">>),
    KE("EventClearToHeadCmdline", <<"c-u">>),
    KE("EventClearCmdline", <<"c-k">>),
    KE("EventExitCmdline", <<"escape">>),
    KE("EventExitCmdline", <<"c-c">>),
    KE("EventExecuteCmdline", <<"enter">>),
    KE("EventExecuteCmdline", <<"c-j">>),
    KE("EventExecuteCmdline", <<"c-m">>) >>

\* the key events defaultKeyManagers registers with the manager it builds
\* for the mode named (ModeReplace gets the manager of ModeInsert)
DefaultKeyEvents(name) ==
    CASE name = "ModeNormal" -> NormalKeyEvents
      [] name = "ModeInsert" -> InsertKeyEvents
      [] name = "ModeCmdline" -> CmdlineKeyEvents
      [] OTHER -> <<>>

\* km.keyEvents of manager km
keyEvents(km) == DefaultKeyEvents(kmBuilt[km]) \o kmRegistered[km]

\* the keys pressed on the managers of defaultKeyManagers
PressKeys == {"1", "2", "0", "j", "g", "x", "Z", "Q", "escape"}

\* the keys pressed on, and the key events registered with, a manager built
\* by hand with NewKeyManager and Register
HandKeys == {"g", "x", "1"}

HandKeyEvents == {
    KE("EventPageEnd", <<"g">>),
    KE("EventPageTop", <<"g", "g">>),
    KE("EventQuit", <<"g", "x">>),
    KE("EventDeleteByte", <<"x">>),
    KE("EventDeletePrevByte", <<"x">>),
    KE("EventIncrement", <<"1">>),
    KE("EventJumpTo", <<"x", "g", "x">>) }

(***************************************************************************)
(* The window as a state machine.                                          *)
(***************************************************************************)
\* NewWindow on one of the files: the file is open and its length known;
\* NewWindow sets no height, which leaves it 0
NewWindow(files) ==
    /\ data \in files
    /\ length = data.length
    /\ width \in WidthsOf(data)
    /\ height = 0
    /\ cursor = 0
    /\ offset = 0
    /\ stack = <<>>
    /\ mode = "ModeNormal"
    /\ op = "NewWindow"
    /\ nest = <<>>
    /\ unset = 0

InitWindow == NewWindow(Files)

\* the owner of the window gives it the height of the user interface,
\* UI.Height() rows, right after NewWindow and before any operation
SetHeight ==
    /\ op = "NewWindow"
    /\ height' \in HeightsOf(data)
    /\ op' = "setHeight"
    /\ nest' = <<>>
    /\ UNCHANGED <<width, length, data, cursor, offset, stack, mode, unset>>
    /\ UNCHANGED kvars

\* an operation is applied to the window: it is counted while the height is
\* 0, where no more than MaxUnset operations are applied
Applied ==
    /\ height = 0 => unset < MaxUnset
    /\ unset' = IF height = 0 THEN unset + 1 ELSE unset

\* a cursor, scroll or page operation named name that leaves position r
Move(name, r) ==
    /\ Applied
    /\ cursor' = r.cursor
    /\ offset' = r.offset
    /\ op' = name
    /\ nest' = <<>>
    /\ UNCHANGED <<width, height, length, data, stack, mode>>
    /\ UNCHANGED kvars

CursorUp == \E n \in Counts : Move("cursorUp", cursorUp(n))

CursorDown == \E n \in Counts : Move("cursorDown", cursorDown(n))

CursorLeft == \E n \in Counts : Move("cursorLeft", cursorLeft(n))

CursorRight == \E n \in Counts : Move("cursorRight", cursorRight(n))

CursorPrev == \E n \in Counts : Move("cursorPrev", cursorPrev(n))

CursorNext == \E n \in Counts : Move("cursorNext", cursorNext(n))

CursorHead == Move("cursorHead", cursorHead)

CursorEnd == \E n \in Counts : Move("cursorEnd", cursorEnd(n))

ScrollUp == \E n \in Counts : Move("scrollUp", scrollUp(n))

ScrollDown == \E n \in Counts : Move("scrollDown", scrollDown(n))

\* the offset o stays within the rows of the data, or within MaxRows rows of
\* address 0, or no further from it than now
InRows(o) ==
    Abs(o) <= MaxInt64(Abs(offset),
                       MaxInt64(MaxRows, Quot(length + width - 1, width)) * width)

PageUp == InRows(pageUp.offset) /\ Move("pageUp", pageUp)

PageDown == InRows(pageDown.offset) /\ Move("pageDown", pageDown)

PageUpHalf == Move("pageUpHalf", pageUpHalf)

PageDownHalf == Move("pageDownHalf", pageDownHalf)

PageTop == Move("pageTop", pageTop)

PageEnd == Move("pageEnd", pageEnd)

JumpTo ==
    /\ Applied
    /\ Len(stack) < MaxStack
    /\ Len(nest) < MaxStack
    /\ \E err \in BOOLEAN :
           \E r \in {jumpTo(err)} :
               /\ cursor' = r.cursor
               /\ offset' = r.offset
               /\ stack' = r.stack
               /\ op' = IF err THEN "jumpTo (read failed)" ELSE "jumpTo"
               /\ nest' = Append(nest, [cursor |-> cursor, offset |-> offset,
                                        pushed |-> r.stack # stack])
    /\ UNCHANGED <<width, height, length, data, mode>>
    /\ UNCHANGED kvars

JumpBack ==
    /\ Applied
    /\ cursor' = jumpBack.cursor
    /\ offset' = jumpBack.offset
    /\ stack' = jumpBack.stack
    /\ op' = "jumpBack"
    /\ nest' = IF nest = <<>> \/ ~nest[Len(nest)].pushed
               THEN <<>>
               ELSE SubSeq(nest, 1, Len(nest) - 1)
    /\ UNCHANGED <<width, height, length, data, mode>>
    /\ UNCHANGED kvars

\* Window.startInsert with the mode left as it is
startInsertKeepsMode == mode

\* Window.startInsert: the mode it leaves
startInsert == "ModeInsert"

\* start-replace: the mode it leaves
startReplace == "ModeReplace"

\* Window.exitInsert: the mode it leaves
exitInsert == "ModeNormal"

\* an operation named name that leaves mode m
SetMode(name, m) ==
    /\ Applied
    /\ mode' = m
    /\ op' = name
    /\ nest' = <<>>
    /\ UNCHANGED <<width, height, length, data, cursor, offset, stack>>
    /\ UNCHANGED kvars

StartInsert == SetMode("startInsert", startInsert)

StartReplace == SetMode("startReplace", startReplace)

ExitInsert == SetMode("exitInsert", exitInsert)

NextWindow ==
    \/ CursorUp \/ CursorDown \/ CursorLeft \/ CursorRight
    \/ CursorPrev \/ CursorNext \/ CursorHead \/ CursorEnd
    \/ ScrollUp \/ ScrollDown
    \/ PageUp \/ PageDown \/ PageUpHalf \/ PageDownHalf
    \/ PageTop \/ PageEnd
    \/ JumpTo \/ JumpBack

(***************************************************************************)
(* The key managers as a state machine.                                    *)
(***************************************************************************)
\* no key manager operation has been applied yet
NoKeyOp ==
    /\ kop = "none"
    /\ kon = 0
    /\ pressed = <<>>
    /\ ev = Event(EventNop, 0)

\* defaultKeyManagers
InitKeys ==
    /\ kms = [m \in Modes |-> CASE m = "ModeNormal" -> 1
                                [] m = "ModeInsert" -> 2
                                [] m = "ModeReplace" -> 2
                                [] m = "ModeCmdline" -> 3]
    /\ kmBuilt = <<"ModeNormal", "ModeInsert", "ModeCmdline">>
    /\ kmRegistered = <<<<>>, <<>>, <<>>>>
    /\ kmCount = <<TRUE, FALSE, FALSE>>
    /\ kmKeys = <<<<>>, <<>>, <<>>>>
    /\ NoKeyOp

\* NewKeyManager(count) for manager 1, which is then built by hand; no mode
\* is served by it, and managers 2 and 3 stay unused
InitHand ==
    /\ kms = [m \in Modes |-> 2]
    /\ kmBuilt = <<"", "", "">>
    /\ kmRegistered = <<<<>>, <<>>, <<>>>>
    /\ kmCount \in {<<c, FALSE, FALSE>> : c \in BOOLEAN}
    /\ kmKeys = <<<<>>, <<>>, <<>>>>
    /\ NoKeyOp

\* km.Press(k) on manager km
Press(km, k) ==
    LET r == press(keyEvents(km), kmCount[km], kmKeys[km], k)
    IN  /\ Len(kmKeys[km]) < MaxPending
        /\ kmKeys' = [kmKeys EXCEPT ![km] = r.keys]
        /\ ev' = r.ev
        /\ pressed' = Append(kmKeys[km], k)
        /\ kop' = "Press"
        /\ kon' = km
        /\ UNCHANGED <<kms, kmBuilt, kmRegistered, kmCount>>
        /\ UNCHANGED wvars

\* km.Register(ke.event, ke.keys...) on manager km
Register(km, ke) ==
    /\ Len(kmRegistered[km]) < MaxRegister
    /\ kmRegistered' = [kmRegistered EXCEPT ![km] = register(kmRegistered[km], ke.event, ke.keys)]
    /\ kop' = "Register"
    /\ kon' = km
    /\ UNCHANGED <<kms, kmKeys, kmBuilt, kmCount, pressed, ev>>
    /\ UNCHANGED wvars

\* a key arrives in mode m and is pressed on the manager of that mode
PressMode == \E m \in Modes, k \in PressKeys : Press(kms[m], k)

PressHand == \E k \in HandKeys : Press(1, k)

\* the keys pressed on, and the key event registered with, the managers of
\* defaultKeyManagers by the owner of the map
ModeKeys == {"Z", "Q"}

ModeKeyEvents == {KE("EventQuit", <<"Z", "Q">>)}

\* the number of key events registered since defaultKeyManagers
RECURSIVE Registered(_)
Registered(km) == IF km = 0 THEN 0 ELSE Len(kmRegistered[km]) + Registered(km - 1)

\* the owner of the map presses a key on the manager of mode m
PressOwner == \E m \in Modes, k \in ModeKeys : Press(kms[m], k)

\* the owner of the map registers a key event with the manager of mode m; no
\* more than MaxRegister key events are registered in all
RegisterOwner ==
    \E m \in Modes, ke \in ModeKeyEvents :
        /\ Registered(3) < MaxRegister
        /\ Register(kms[m], ke)

RegisterHand == \E ke \in HandKeyEvents : Register(1, ke)

\* a window that no operation is applied to
InitIdleWindow ==
    /\ InitWindow
    /\ data = LongFile

(***************************************************************************)
(* Specifications: the window under the navigation operations, the         *)
(* managers of defaultKeyManagers under key presses, and a manager built   *)
(* by hand under Register and Press.                                       *)
(***************************************************************************)
Init == InitWindow /\ InitKeys

Next == SetHeight \/ NextWindow

Spec == Init /\ [][Next]_vars

InitDefaultKeys == InitIdleWindow /\ InitKeys

NextKeys == PressMode

SpecKeys == InitDefaultKeys /\ [][NextKeys]_vars

\* the window of the page scenario and the short files, under the navigation
\* operations
InitPage == NewWindow(ShortFiles \cup {PageFile}) /\ InitKeys

SpecPage == InitPage /\ [][Next]_vars

\* the files with blanks and digits, under the navigation operations
InitJump == NewWindow(JumpFiles) /\ InitKeys

SpecJump == InitJump /\ [][Next]_vars

\* two of the short files under the navigation and the mode operations
InitMode == NewWindow({ShortFile(0), ShortFile(MaxShortLen)}) /\ InitKeys

NextMode == SetHeight \/ NextWindow \/ StartInsert \/ StartReplace \/ ExitInsert

SpecMode == InitMode /\ [][NextMode]_vars

\* the managers of defaultKeyManagers under Register and Press
NextOwner == RegisterOwner \/ PressOwner

SpecOwner == InitDefaultKeys /\ [][NextOwner]_vars

InitRegister == InitIdleWindow /\ InitHand

NextRegister == RegisterHand \/ PressHand

SpecRegister == InitRegister /\ [][NextRegister]_vars

(***************************************************************************)
(* Properties of the window.                                               *)
(***************************************************************************)
\* the number of rows of data, ceil(length / width)
Rows == (length + width - 1) \div width

\* C1: for every height >= 1, after every navigation operation the cursor
\* lies inside the window: offset <= cursor < offset + height * width.
C1_ViewportContainment ==
    height >= 1 => (offset <= cursor /\ cursor < offset + height * width)

\* C2: for every height >= 1, after every navigation operation the offset is
\* non-negative and a multiple of the width.
C2_OffsetAligned ==
    height >= 1 => (offset >= 0 /\ offset % width = 0)

\* C3: in a window of height > 0, after every navigation operation, a
\* successful jumpTo included,
\* offset <= max(ceil(length / width) - height, 0) * width.
C3_OffsetUpperBound ==
    height >= 1 => offset <= MaxInt64(Rows - height, 0) * width

\* C4: in a window of height > 0, which the navigation operations assume,
\* after every navigation operation 0 <= cursor <= max(length - 1, 0).
C4_CursorBounds ==
    height >= 1 => (0 <= cursor /\ cursor <= MaxInt64(length - 1, 0))

\* C4 witness: cursorNext was stopped at the last address of a file of several
\* rows, and an earlier jump is still on the stack.
C4_Witness ==
    /\ op = "cursorNext"
    /\ length > width
    /\ cursor = length - 1
    /\ stack # <<>>

\* C5 as claimed: a jumpBack right after a jumpTo, whatever the jumpTo found,
\* restores the (cursor, offset) held before that jumpTo.
C5_RoundTripAnyJump ==
    [][(op' = "jumpBack" /\ nest # <<>>)
          => /\ cursor' = nest[Len(nest)].cursor
             /\ offset' = nest[Len(nest)].offset]_vars

\* C5 amended: a jumpBack that answers a jumpTo which pushed a position
\* restores the (cursor, offset) held before that jumpTo; nested jumps are
\* answered newest first.
C5_RoundTrip ==
    [][(op' = "jumpBack" /\ nest # <<>> /\ nest[Len(nest)].pushed)
          => /\ cursor' = nest[Len(nest)].cursor
             /\ offset' = nest[Len(nest)].offset]_vars

\* C5 witness: two nested jumps, the second from another position than the
\* first, and the first jumpBack has restored the position before the second.
C5_Witness ==
    /\ op = "jumpBack"
    /\ Len(nest) = 1
    /\ nest[1].pushed
    /\ Len(stack) = 1
    /\ Pos(cursor, offset) # stack[1]
    /\ stack[1] = Pos(nest[1].cursor, nest[1].offset)

\* C10: in a window of height > 0, an operation applied at its extreme
\* position changes neither cursor, offset nor jump stack.
C10_ClampIdempotent ==
    [][(/\ height >= 1
        /\ \/ op' = "cursorUp" /\ Quot(cursor, width) = 0
           \/ op' = "cursorLeft" /\ cursor % width = 0
           \/ op' = "cursorPrev" /\ cursor = 0
           \/ op' = "cursorDown" /\ Quot(cursor, width) = Quot(LastAddr, width)
           \/ op' = "cursorNext" /\ cursor = length - 1
           \/ op' = "cursorRight" /\ cursor = length - 1
           \/ op' = "scrollUp" /\ offset = 0
           \/ op' = "scrollDown" /\ Quot(offset, width) + height >= Rows)
          => UNCHANGED <<cursor, offset, stack>>]_vars

\* C11: pageEnd, from any state, sets offset to
\* max(ceil(length / width) - height, 0) * width and cursor to the first byte
\* of the last row of data, (ceil(max(length, 1) / width) - 1) * width; with
\* width 16, height 10 and length 400 that is offset 240 and cursor 384.
\* pageTop, from any state, sets offset and cursor to 0.
C11_PageEndTop ==
    [][/\ op' = "pageEnd" =>
             /\ offset' = MaxInt64(Rows - height, 0) * width
             /\ cursor' = ((MaxInt64(length, 1) + width - 1) \div width - 1) * width
             /\ (width = 16 /\ height = 10 /\ length = 400)
                    => offset' = 240 /\ cursor' = 384
       /\ op' = "pageTop" => offset' = 0 /\ cursor' = 0]_vars

\* C11 witness: pageEnd on the window of the scenario left offset 240 and
\* cursor 384.
C11_Witness ==
    /\ op = "pageEnd"
    /\ width = 16 /\ height = 10 /\ length = 400
    /\ offset = 240
    /\ cursor = 384

\* the cursor lies inside the window at offset o
Inside(c, o) == o <= c /\ c < o + height * width

\* the rows of data below the row of the cursor
RowsBelow == (MaxInt64(length - 1, 0) \div width) - (cursor \div width)

\* C12: in a window of height > 0, cursorDown(n) moves the cursor down
\* min(max(n, 1), rows of data below the cursor's row) rows and keeps its
\* column, but stops at the last address length - 1 (address 0 in an empty
\* file); the offset is unchanged when the new cursor is inside the window,
\* and otherwise is the row start that makes the cursor's row the last
\* visible row.
C12_CursorDown ==
    [][(height >= 1 /\ op' = "cursorDown") =>
          \E n \in Counts :
              /\ cursor' = MinInt64(cursor + MinInt64(MaxInt64(n, 1), RowsBelow) * width,
                                    MaxInt64(length - 1, 0))
              /\ offset' = IF Inside(cursor', offset) THEN offset
                           ELSE (cursor' \div width - height + 1) * width]_vars

\* C14: a window starts in ModeNormal; startInsert leaves ModeInsert and
\* start-replace leaves ModeReplace; exitInsert leaves ModeNormal, from
\* ModeInsert and from ModeReplace; no cursor, scroll, page or jump operation
\* changes the mode.
C14_ModeMachine ==
    [][/\ op = "NewWindow" => mode = "ModeNormal"
       /\ op' = "startInsert" => mode' = "ModeInsert"
       /\ op' = "startReplace" => mode' = "ModeReplace"
       /\ (op' = "exitInsert" /\ mode \in {"ModeInsert", "ModeReplace"})
             => mode' = "ModeNormal"
       /\ op' \notin {"startInsert", "startReplace", "exitInsert"}
             => mode' = mode]_vars

\* C14 witness: the window is in ModeInsert and cursorNext has moved the
\* cursor since.
C14_Witness ==
    /\ op = "cursorNext"
    /\ mode = "ModeInsert"
    /\ cursor > 0

\* C17: in a window of height > 0, scrollUp and scrollDown leave the cursor
\* unchanged when it lies inside the window at the new offset; otherwise
\* they move it by whole rows, its column kept, onto the nearest visible
\* row: the first one when it was above the window (but no further than the
\* last address), the last one when it was below.
C17_ScrollKeepsCursor ==
    [][(height >= 1 /\ op' \in {"scrollUp", "scrollDown"}) =>
          cursor' = IF Inside(cursor, offset') THEN cursor
                    ELSE IF cursor < offset'
                    THEN MinInt64(offset' + (cursor % width), MaxInt64(length - 1, 0))
                    ELSE offset' + (height - 1) * width + (cursor % width)]_vars

(***************************************************************************)
(* Properties of the key managers.  They speak of the state right after a  *)
(* Press: onKes are the key events of the manager pressed on, onCounting    *)
(* its count flag, onPending the keys it keeps pending.                     *)
(***************************************************************************)
onKes == keyEvents(kon)

onCounting == kmCount[kon]

onPending == kmKeys[kon]

IsPrefix(p, q) == Len(p) <= Len(q) /\ SubSeq(q, 1, Len(p)) = p

\* the key lists of the key events registered before the b-th
Earlier(b) == {onKes[a].keys : a \in 1..(b - 1)}

\* C6 as claimed: when a prefix of the buffer equals the keys of a registered
\* key event and no longer key event with that prefix is registered earlier,
\* Press returns that event and leaves no key pending.
C6_PrefixResolves ==
    kop = "Press" =>
        \A b \in 1..Len(onKes) :
            (/\ IsPrefix(onKes[b].keys, pressed)
             /\ ~\E e \in Earlier(b) : Len(e) > Len(onKes[b].keys) /\ IsPrefix(onKes[b].keys, e))
                => ev.Type = onKes[b].event /\ onPending = <<>>

\* C6 amended: when the whole buffer, without the count keys that lead it on
\* a onCounting manager, equals the keys of a registered key event, and no key
\* event registered earlier has those keys as a prefix (longer keys or the
\* same keys), Press returns that event and leaves no key pending.
C6_BufferResolves ==
    kop = "Press" =>
        \A b \in 1..Len(onKes) :
            (/\ AfterNum(onCounting, pressed) = onKes[b].keys
             /\ ~\E e \in Earlier(b) : IsPrefix(onKes[b].keys, e))
                => ev.Type = onKes[b].event /\ onPending = <<>>

\* C6 witness: "g", "x" resolved to the key event registered second, after a
\* key event of "g", "g"; a count key led the buffer.
C6_Witness ==
    /\ kop = "Press"
    /\ onCounting
    /\ pressed = <<"1", "g", "x">>
    /\ onKes = <<KE("EventPageTop", <<"g", "g">>), KE("EventQuit", <<"g", "x">>)>>
    /\ ev = Event("EventQuit", 1)
    /\ onPending = <<>>

\* 10 to the power n
RECURSIVE Pow10(_)
Pow10(n) == IF n = 0 THEN 1 ELSE 10 * Pow10(n - 1)

\* the decimal value of the digit keys ds
RECURSIVE Decimal(_)
Decimal(ds) ==
    IF ds = <<>> THEN 0
    ELSE DigitValue(Head(ds)) * Pow10(Len(ds) - 1) + Decimal(Tail(ds))

\* ds is d1..dk, k >= 1, with d1 in "1".."9" and the later keys in "0".."9"
IsCountRun(ds) ==
    /\ ds # <<>>
    /\ ds[1] \in {"1", "2", "3", "4", "5", "6", "7", "8", "9"}
    /\ \A j \in 2..Len(ds) : ds[j] \in {"0", "1", "2", "3", "4", "5", "6", "7", "8", "9"}

IsDigitKey(k) == k \in {"0", "1", "2", "3", "4", "5", "6", "7", "8", "9"}

\* C7: on the counting manager of ModeNormal, from an empty buffer, each key
\* of a count d1..dk returns no event and stays pending; the keys of a key
\* event (which do not go on with a digit) pressed after the count return
\* that event with the decimal value of d1..dk as Count; "0" alone returns
\* EventCursorHead with Count 0 and leaves nothing pending.
C7_CountParsing ==
    (kop = "Press" /\ kon = kms["ModeNormal"]) =>
        /\ IsCountRun(pressed) => ev = Event(EventNop, 0) /\ onPending = pressed
        /\ \A n \in 1..(Len(pressed) - 1) : \A b \in 1..Len(onKes) :
               (/\ IsCountRun(SubSeq(pressed, 1, n))
                /\ SubSeq(pressed, n + 1, Len(pressed)) = onKes[b].keys
                /\ ~IsDigitKey(onKes[b].keys[1]))
                   => /\ ev = Event(onKes[b].event, Decimal(SubSeq(pressed, 1, n)))
                      /\ onPending = <<>>
        /\ pressed = <<"0">> => ev = Event("EventCursorHead", 0) /\ onPending = <<>>

\* C7 witness: "1", "2", "j" returned EventCursorDown with Count 12.
C7_Witness ==
    /\ kop = "Press"
    /\ kon = kms["ModeNormal"]
    /\ pressed = <<"1", "2", "j">>
    /\ ev = Event("EventCursorDown", 12)
    /\ onPending = <<>>

\* the keys i.. of the buffer, without the count keys that lead them
Suffix(i) == AfterNum(onCounting, SubSeq(pressed, i, Len(pressed)))

\* the suffixes of the buffer that some key event equals or goes on from
Viable == {i \in 1..Len(pressed) : \E b \in 1..Len(onKes) : IsPrefix(Suffix(i), onKes[b].keys)}

Least(S) == CHOOSE x \in S : \A y \in S : x <= y

\* C8: in ModeNormal "g" returns no event and stays pending, "g", "g" returns
\* EventPageTop, and "g", "x" drops the "g" and returns EventDeleteByte with
\* nothing left pending.  In every mode Press resolves the longest suffix of
\* the buffer that a key event equals or goes on from, by the first such key
\* event: to its event when it equals the suffix, else to no event with the
\* buffer kept; when there is no such suffix the buffer is dropped.
C8_Retry ==
    kop = "Press" =>
        /\ kon = kms["ModeNormal"] =>
              /\ pressed = <<"g">> => ev = Event(EventNop, 0) /\ onPending = <<"g">>
              /\ pressed = <<"g", "g">> => ev = Event("EventPageTop", 0) /\ onPending = <<>>
              /\ pressed = <<"g", "x">> => ev = Event("EventDeleteByte", 0) /\ onPending = <<>>
        /\ IF Viable = {}
           THEN ev = Event(EventNop, 0) /\ onPending = <<>>
           ELSE LET i == Least(Viable)
                    b == Least({c \in 1..Len(onKes) : IsPrefix(Suffix(i), onKes[c].keys)})
                IN  IF Suffix(i) = onKes[b].keys
                    THEN /\ ev.Type = onKes[b].event
                         /\ onPending = <<>>
                    ELSE /\ ev = Event(EventNop, 0)
                         /\ onPending = pressed

\* C8 witness: "g", "x" in ModeNormal returned EventDeleteByte.
C8_Witness ==
    /\ kop = "Press"
    /\ kon = kms["ModeNormal"]
    /\ pressed = <<"g", "x">>
    /\ ev = Event("EventDeleteByte", 0)
    /\ onPending = <<>>

\* the length of the longest key list among the key events es
Longest(es) ==
    IF es = <<>> THEN 0
    ELSE Len(es[CHOOSE b \in 1..Len(es) : \A c \in 1..Len(es) : Len(es[c].keys) <= Len(es[b].keys)].keys)

\* C9: the keys pending on a manager are none, or no more than the keys of
\* its longest key event.
C9_PendingBound ==
    \A km \in Managers :
        kmKeys[km] = <<>> \/ Len(kmKeys[km]) <= Longest(keyEvents(km))

\* C13: a Press or Register on the manager of one mode changes
\* neither the pending keys nor the key events of the manager of any other
\* mode.
C13_ModesIndependent ==
    [][\A m1, m2 \in Modes :
          (m1 # m2 /\ kon' = kms[m1])
             => /\ kmKeys'[kms[m2]] = kmKeys[kms[m2]]
                /\ keyEvents(kms[m2])' = keyEvents(kms[m2])]_vars

\* p is a prefix of q and shorter than q
IsStrictPrefix(p, q) == Len(p) < Len(q) /\ IsPrefix(p, q)

\* the b-th key event is the only one registered with its event
OnlyOfEvent(b) == \A c \in 1..Len(onKes) : c # b => onKes[c].event # onKes[b].event

\* C15 as claimed: when a key event S is registered earlier than a key event L
\* with longer keys that S's keys are a prefix of, no Press returns the event
\* of L (which no other key event is registered with), whatever other key
\* events are registered.
C15_Shadowing ==
    kop = "Press" =>
        \A a, b \in 1..Len(onKes) :
            (/\ a < b
             /\ IsStrictPrefix(onKes[a].keys, onKes[b].keys)
             /\ OnlyOfEvent(b))
                => ev.Type # onKes[b].event

\* C15 amended: the same, provided every other key event registered has one
\* key only.
C15_ShadowingAlone ==
    kop = "Press" =>
        \A a, b \in 1..Len(onKes) :
            (/\ a < b
             /\ IsStrictPrefix(onKes[a].keys, onKes[b].keys)
             /\ OnlyOfEvent(b)
             /\ \A c \in 1..Len(onKes) : c \notin {a, b} => Len(onKes[c].keys) = 1)
                => ev.Type # onKes[b].event

\* C15 witness: "g" registered before "g", "g", next to a key event of one
\* key; "g" after a count key returned the event of "g".
C15_Witness ==
    /\ kop = "Press"
    /\ onCounting
    /\ onKes = <<KE("EventPageEnd", <<"g">>), KE("EventPageTop", <<"g", "g">>),
                 KE("EventDeleteByte", <<"x">>)>>
    /\ pressed = <<"1", "g">>
    /\ ev = Event("EventPageEnd", 1)
    /\ onPending = <<>>

\* C19 as claimed: when a key event L is registered earlier than a key event
\* S whose keys are a prefix of L's longer keys, no Press returns the event
\* of S (which no other key event is registered with); whenever the keys
\* that Press settles on are S's keys, Press returns no event and keeps the
\* buffer.
C19_LaterPrefixNoEvent ==
    kop = "Press" =>
        \A a, b \in 1..Len(onKes) :
            (/\ a < b
             /\ IsStrictPrefix(onKes[b].keys, onKes[a].keys))
                => /\ OnlyOfEvent(b) => ev.Type # onKes[b].event
                   /\ (/\ Viable # {}
                       /\ Suffix(Least(Viable)) = onKes[b].keys)
                          => ev = Event(EventNop, 0) /\ onPending = pressed

\* C19 amended: when a key event L is registered earlier than a key event S
\* whose keys are a prefix of L's longer keys, no Press returns the event of
\* S (which no other key event is registered with); when the keys that Press
\* settles on are S's keys, Press returns no event and keeps the buffer if
\* no key event registered before L has these very keys, and otherwise
\* either does the same or returns the event of a key event registered
\* before L with these very keys and empties the buffer.
C19_LaterPrefixUnreachable ==
    kop = "Press" =>
        \A a, b \in 1..Len(onKes) :
            (/\ a < b
             /\ IsStrictPrefix(onKes[b].keys, onKes[a].keys))
                => /\ OnlyOfEvent(b) => ev.Type # onKes[b].event
                   /\ (/\ Viable # {}
                       /\ Suffix(Least(Viable)) = onKes[b].keys)
                          => \/ ev = Event(EventNop, 0) /\ onPending = pressed
                             \/ \E c \in 1..(a - 1) :
                                    /\ onKes[c].keys = onKes[b].keys
                                    /\ ev.Type = onKes[c].event
                                    /\ onPending = <<>>

\* C19 witness: "g", "x" registered before "g"; "g" after a count key
\* returned no event and stays pending with the count key.
C19_Witness ==
    /\ kop = "Press"
    /\ onCounting
    /\ onKes = <<KE("EventQuit", <<"g", "x">>), KE("EventPageEnd", <<"g">>)>>
    /\ pressed = <<"1", "g">>
    /\ ev = Event(EventNop, 0)
    /\ onPending = <<"1", "g">>

\* the keys i.. of the pending keys, without the count keys that lead them
PendingSuffix(i) == AfterNum(onCounting, SubSeq(onPending, i, Len(onPending)))

\* C20: after every Press, an event other than EventNop comes with no key
\* left pending; and when keys are left pending, Press returned EventNop and
\* some suffix of the pending keys, without the count keys that lead it on a
\* counting manager, is a prefix (the empty one included) of the longer keys
\* of a registered key event.
C20_PendingIsPrefix ==
    kop = "Press" =>
        /\ ev.Type # EventNop => onPending = <<>>
        /\ onPending # <<>> =>
              /\ ev = Event(EventNop, 0)
              /\ \E i \in 1..Len(onPending) : \E b \in 1..Len(onKes) :
                     IsStrictPrefix(PendingSuffix(i), onKes[b].keys)

\* C20 witness: on a counting manager with "x", "g", "x" registered, the keys
\* "x", "1", "x" are pending: the suffix "1", "x" without its count key is a
\* prefix of "x", "g", "x".
C20_Witness ==
    /\ kop = "Press"
    /\ onCounting
    /\ onKes = <<KE("EventJumpTo", <<"x", "g", "x">>)>>
    /\ onPending = <<"x", "1", "x">>
    /\ ev = Event(EventNop, 0)

(***************************************************************************)
(* Properties of jumpTo.  They speak of the file by its addresses: the     *)
(* window of bytes that jumpTo reads is WinLo..WinHi - 1.                  *)
(***************************************************************************)
\* the byte at address a; the bytes past the end of the file read as 0
At(a) == IF a >= 0 /\ a < length THEN ByteAt(data, a) ELSE 0

WinLo == MaxInt64(cursor - s, 0)

WinHi == WinLo + 2 * s

\* the address where the scan of jumpTo starts: the middle of the window
ScanFrom == WinLo + s

\* the first address from from on, inside the window, whose byte is no
\* blank; WinHi when there is none
FirstNonBlank(from) ==
    CHOOSE a \in from..WinHi :
        /\ \A c \in from..(a - 1) : isWhite(At(c))
        /\ a = WinHi \/ ~isWhite(At(a))

\* the first address of the run of digits around address f, inside the window
RunLo(f) ==
    CHOOSE a \in WinLo..f :
        /\ \A c \in a..f : isDigit(At(c))
        /\ a = WinLo \/ ~isDigit(At(a - 1))

\* the address after the run of digits around address f; WinHi when the run
\* reaches the end of the window
RunHi(f) ==
    CHOOSE a \in (f + 1)..WinHi :
        /\ \A c \in f..(a - 1) : isDigit(At(c))
        /\ a = WinHi \/ ~isDigit(At(a))

\* what is found from from on: whether the first byte after the blanks is a
\* digit (found), whether the run of digits around it reaches the end of the
\* window (toEnd), and the value of the run (v)
Scan(from) ==
    LET f == FirstNonBlank(from)
    IN  IF f = WinHi \/ ~isDigit(At(f))
        THEN [found |-> FALSE, toEnd |-> FALSE, v |-> 0]
        ELSE LET lo == RunLo(f)
                 hi == RunHi(f)
             IN  IF hi = WinHi
                 THEN [found |-> TRUE, toEnd |-> TRUE, v |-> 0]
                 ELSE [found |-> TRUE, toEnd |-> FALSE,
                       v |-> ParseInt([k \in 1..(hi - lo) |-> At(lo + k - 1) - 48])]

\* the address found from from on
Address(from) == Scan(from).v

\* no address to jump to is found from from on: no digit after the blanks,
\* a run that reaches the end of the window, or a value v with v <= 0 or
\* v >= length
NoAddress(from) ==
    LET r == Scan(from)
    IN  \/ ~r.found
        \/ r.toEnd
        \/ r.v <= 0
        \/ r.v >= length

\* C16 as claimed: jumpTo changes neither cursor, offset nor jump stack when
\* the read fails, when no digit is found after the blanks skipped, when the
\* run of digits reaches the end of the window, or when the value v parsed
\* has v <= 0 or v >= length; the stack grows, by the one entry
\* (cursor, offset), only when jumpTo moves the cursor.
C16_SilentNoOp ==
    [][/\ op' = "jumpTo (read failed)" => UNCHANGED <<cursor, offset, stack>>
       /\ op' = "jumpTo" =>
             /\ NoAddress(ScanFrom) => UNCHANGED <<cursor, offset, stack>>
             /\ stack' # stack =>
                   /\ stack' = Append(stack, Pos(cursor, offset))
                   /\ cursor' # cursor]_vars

\* C16 amended: the same failures change nothing; the stack grows, by the one
\* entry (cursor, offset), only when an address v with 0 < v < length was
\* parsed, and the cursor is then set to v, which may be the address it has.
C16_NoOpOnFailure ==
    [][/\ op' = "jumpTo (read failed)" => UNCHANGED <<cursor, offset, stack>>
       /\ op' = "jumpTo" =>
             /\ NoAddress(ScanFrom) => UNCHANGED <<cursor, offset, stack>>
             /\ stack' # stack =>
                   /\ stack' = Append(stack, Pos(cursor, offset))
                   /\ ~NoAddress(ScanFrom)
                   /\ cursor' = Address(ScanFrom)]_vars

\* C16 witness: jumpTo with the cursor on the digits of its own address has
\* saved the position and left the cursor where it was.
C16_Witness ==
    /\ op = "jumpTo"
    /\ stack # <<>>
    /\ stack[Len(stack)].cursor = cursor
    /\ isDigit(At(cursor))

\* C18: for every cursor, one within the first 50 bytes included, jumpTo
\* skips the blanks from the byte under the cursor on and parses the run of
\* digits around the first byte after them: when the read succeeds, it jumps
\* to the address found from the cursor on, and does nothing when none is
\* found there.
C18_ScanFromCursor ==
    [][op' = "jumpTo" =>
          IF NoAddress(cursor)
          THEN UNCHANGED <<cursor, offset, stack>>
          ELSE cursor' = Address(cursor) /\ stack' # stack]_vars

====
